---- MODULE Spec2Model ----
(***************************************************************************)
(* A model of image-registry-go (src/main.go): an OCI distribution server  *)
(* whose single HTTP handler dispatches on string tests of the request URI *)
(* and stores blobs and tagged manifests as files below rootDir.           *)
(*                                                                         *)
(* Strings are TLA+ strings; TLC evaluates Len, SubSeq and \o on them, so  *)
(* the Go string functions the handler uses are written out character by   *)
(* character.  A path is the sequence of the segments of a clean absolute  *)
(* path ("/srv/data" is <<"srv", "data">>); the file system is the pair    *)
(* (files, dirs) of such paths.                                            *)
(***************************************************************************)
EXTENDS Integers, Sequences, FiniteSets, TLC

VARIABLES
    files,   \* regular files below "/": path |-> content
    dirs,    \* the directories that exist
    req,     \* the request served last
    resp,    \* the response to it
    pre,     \* files and dirs before that request, and the Location answered before it
    tagged,  \* history: <<name, tag>> |-> the body of the last manifest PUT answered 201
    uploaded,\* history: the <<name, digest>> of the blob uploads answered 201
    nreq,    \* number of requests served (started, where handlers run concurrently)
    procs,   \* the handlers that run concurrently, each at a step of its code
    hist     \* history of the concurrent writes: bodies written, faults, last to complete

vars == <<files, dirs, req, resp, pre, tagged, uploaded, nreq, procs, hist>>

(***************************************************************************)
(* Bounds of the model.                                                    *)
(***************************************************************************)
MaxReqs == 2      \* requests per run
MaxBody == 2      \* bytes in a request body
MaxReadErrs == 2  \* failed reads of one request body

(***************************************************************************)
(* Go's strings package, as far as the handler uses it.                    *)
(***************************************************************************)
Min(a, b) == IF a < b THEN a ELSE b

CharAt(s, i) == SubSeq(s, i, i)

HasPrefix(s, p) == Len(s) >= Len(p) /\ SubSeq(s, 1, Len(p)) = p

HasSuffix(s, p) == Len(s) >= Len(p) /\ SubSeq(s, Len(s) - Len(p) + 1, Len(s)) = p

TrimPrefix(s, p) == IF HasPrefix(s, p) THEN SubSeq(s, Len(p) + 1, Len(s)) ELSE s

\* strings.Index: the 1-based position of the first occurrence of sub in s, 0 if none
RECURSIVE indexFrom(_, _, _)
indexFrom(s, sub, i) ==
    IF i + Len(sub) - 1 > Len(s) THEN 0
    ELSE IF SubSeq(s, i, i + Len(sub) - 1) = sub THEN i
    ELSE indexFrom(s, sub, i + 1)

Index(s, sub) == indexFrom(s, sub, 1)

Contains(s, sub) == Index(s, sub) > 0

\* strings.Count for a one-character separator
Count(s, c) == Cardinality({i \in 1..Len(s) : CharAt(s, i) = c})

\* strings.Split for a non-empty separator: always at least one element
RECURSIVE splitAt(_, _, _)
splitAt(s, sep, i) ==
    IF i = 0 THEN <<s>>
    ELSE <<SubSeq(s, 1, i - 1)>>
         \o splitAt(SubSeq(s, i + Len(sep), Len(s)), sep,
                    Index(SubSeq(s, i + Len(sep), Len(s)), sep))

Split(s, sep) == splitAt(s, sep, Index(s, sep))

RECURSIVE Join(_, _)
Join(parts, sep) ==
    IF Len(parts) = 0 THEN ""
    ELSE IF Len(parts) = 1 THEN parts[1]
    ELSE parts[1] \o sep \o Join(Tail(parts), sep)

Last(parts) == parts[Len(parts)]

AllChars(s, set) == \A i \in 1..Len(s) : CharAt(s, i) \in set

(***************************************************************************)
(* The three grammars of src/main.go:24-26 and regexp.MatchString on them. *)
(***************************************************************************)
Digit == {"0", "1", "2", "3", "4", "5", "6", "7", "8", "9"}

Lower == {"a", "b", "c", "d", "e", "f", "g", "h", "i", "j", "k", "l", "m",
          "n", "o", "p", "q", "r", "s", "t", "u", "v", "w", "x", "y", "z"}

Upper == {"A", "B", "C", "D", "E", "F", "G", "H", "I", "J", "K", "L", "M",
          "N", "O", "P", "Q", "R", "S", "T", "U", "V", "W", "X", "Y", "Z"}

HexDigit == Digit \cup {"a", "b", "c", "d", "e", "f"}

NameSep == {".", "_", "-"}

NameChar == Lower \cup Digit \cup NameSep
RefFirstChar == Lower \cup Upper \cup Digit \cup {"_"}
RefChar == Lower \cup Upper \cup Digit \cup NameSep

\* [a-z0-9]+([._-][a-z0-9]+)* : alphanumeric runs joined by single separators
nameComponent(c) ==
    /\ Len(c) > 0
    /\ AllChars(c, NameChar)
    /\ CharAt(c, 1) \notin NameSep
    /\ CharAt(c, Len(c)) \notin NameSep
    /\ \A i \in 1..(Len(c) - 1) : ~(CharAt(c, i) \in NameSep /\ CharAt(c, i + 1) \in NameSep)

\* ^[a-z0-9]+([._-][a-z0-9]+)*(/[a-z0-9]+([._-][a-z0-9]+)*)*$
nameRegex(s) ==
    LET parts == Split(s, "/")
    IN \A i \in 1..Len(parts) : nameComponent(parts[i])

RefMaxTail == 127
HexLen == 64

\* ^[a-zA-Z0-9_][a-zA-Z0-9._-]{1,127}$
refRegex(s) ==
    /\ Len(s) >= 2
    /\ Len(s) <= 1 + RefMaxTail
    /\ CharAt(s, 1) \in RefFirstChar
    /\ AllChars(SubSeq(s, 2, Len(s)), RefChar)

\* ^sha256:([a-f0-9]{64})$
digestRegex(s) ==
    /\ Len(s) = Len("sha256:") + HexLen
    /\ HasPrefix(s, "sha256:")
    /\ AllChars(SubSeq(s, Len("sha256:") + 1, Len(s)), HexDigit)

matches(pattern, s) ==
    CASE pattern = "nameRegex" -> nameRegex(s)
      [] pattern = "refRegex" -> refRegex(s)
      [] pattern = "digestRegex" -> digestRegex(s)

(***************************************************************************)
(* parseName (src/main.go:390-410).  The result is a record: err is TRUE   *)
(* where the function returns an error.                                    *)
(***************************************************************************)
Reserved == {"blobs", "manifests", "tags", "referrers"}

\* the loop of lines 401-406: the segments before the first reserved one
RECURSIVE nameParts(_)
nameParts(segs) ==
    IF Len(segs) = 0 \/ Head(segs) \in Reserved THEN <<>>
    ELSE <<Head(segs)>> \o nameParts(Tail(segs))

parseName(url) ==
    LET s == TrimPrefix(url, "/v2/")
        paths == Count(s, "/")
    IN IF paths <= 1 THEN [name |-> "", err |-> TRUE]
       ELSE IF paths = 2 THEN [name |-> Split(s, "/")[1], err |-> FALSE]
       ELSE [name |-> Join(nameParts(Split(s, "/")), "/"), err |-> FALSE]

(***************************************************************************)
(* r.FormValue(key) on a request whose body is not a form: the first value *)
(* of key in the query part of the request URI ("" if there is none).      *)
(* The URIs of the model contain no percent escapes.                       *)
(***************************************************************************)
RECURSIVE firstValue(_, _)
firstValue(pairs, key) ==
    IF Len(pairs) = 0 THEN ""
    ELSE IF HasPrefix(Head(pairs), key \o "=") THEN TrimPrefix(Head(pairs), key \o "=")
    ELSE firstValue(Tail(pairs), key)

FormValue(uri, key) ==
    LET q == Index(uri, "?")
    IN IF q = 0 THEN ""
       ELSE firstValue(Split(SubSeq(uri, q + 1, Len(uri)), "&"), key)

(***************************************************************************)
(* sha256.Sum256 and "sha256:%x" (src/main.go:452-453).  The hash is       *)
(* modelled as an injective function on the contents of the model: the hex *)
(* encoding of the bytes, zero-padded to 64 digits, and one digest of its  *)
(* own for the one content of the model too long for that.  Only its being *)
(* a function of the content, free of collisions, is used.                 *)
(***************************************************************************)
HexOfByte(b) == CASE b = "x" -> "78" [] b = "y" -> "79"

RECURSIVE hexEncode(_)
hexEncode(b) == IF Len(b) = 0 THEN "" ELSE HexOfByte(CharAt(b, 1)) \o hexEncode(Tail(b))

RECURSIVE zeros(_)
zeros(n) == IF n <= 0 THEN "" ELSE "0" \o zeros(n - 1)

ZeroPad == zeros(HexLen)

Sum256(b) ==
    IF 2 * Len(b) <= HexLen
    THEN hexEncode(b) \o SubSeq(ZeroPad, 1, HexLen - 2 * Len(b))
    ELSE "ff" \o SubSeq(ZeroPad, 1, HexLen - 2)

Compute(b) == "sha256:" \o Sum256(b)

(***************************************************************************)
(* path.Join(base, elems...) for an absolute, clean base: the non-empty    *)
(* elements joined by "/" and cleaned lexically ("." and "" dropped, ".."  *)
(* removes the segment before it and is dropped at the root).              *)
(***************************************************************************)
RECURSIVE cleanSegs(_, _)
cleanSegs(segs, acc) ==
    IF Len(segs) = 0 THEN acc
    ELSE LET h == Head(segs)
         IN IF h = "" \/ h = "." THEN cleanSegs(Tail(segs), acc)
            ELSE IF h = ".." THEN
                cleanSegs(Tail(segs), IF Len(acc) = 0 THEN acc ELSE SubSeq(acc, 1, Len(acc) - 1))
            ELSE cleanSegs(Tail(segs), Append(acc, h))

pathJoin(base, elems) ==
    cleanSegs(Split(Join(SelectSeq(elems, LAMBDA e : e # ""), "/"), "/"), base)

\* path.Dir of a path other than the root, and the name of its last segment
pathDir(p) == SubSeq(p, 1, Len(p) - 1)

pathBase(p) == p[Len(p)]

\* the proper ancestors of a path
Ancestors(p) == {SubSeq(p, 1, k) : k \in 0..(Len(p) - 1)}

(***************************************************************************)
(* The file system.  fs is a record with fields files and dirs; every file *)
(* and every directory but the root has its parent in dirs.  os.ReadDir    *)
(* returns the entries sorted by file name, which is byte order.           *)
(***************************************************************************)
ByteOrder == "-./0123456789:=?ABCDEFGHIJKLMNOPQRSTUVWXYZ_abcdefghijklmnopqrstuvwxyz"

RECURSIVE strLess(_, _)
strLess(a, b) ==
    IF Len(b) = 0 THEN FALSE
    ELSE IF Len(a) = 0 THEN TRUE
    ELSE IF CharAt(a, 1) = CharAt(b, 1) THEN strLess(Tail(a), Tail(b))
    ELSE Index(ByteOrder, CharAt(a, 1)) < Index(ByteOrder, CharAt(b, 1))

RECURSIVE sorted(_)
sorted(set) ==
    IF set = {} THEN <<>>
    ELSE LET m == CHOOSE x \in set : \A y \in set \ {x} : strLess(x, y)
         IN <<m>> \o sorted(set \ {m})

\* what a path names: "file", "dir", or the errno of looking it up
nodeKind(fs, p) ==
    IF p \in fs.dirs THEN "dir"
    ELSE IF p \in DOMAIN fs.files THEN "file"
    ELSE IF \E q \in Ancestors(p) : q \in DOMAIN fs.files THEN "ENOTDIR"
    ELSE "ENOENT"

\* os.MkdirAll: every missing directory of the path, or an error and no change
\* when a component of the path is a regular file
MkdirAll(fs, p) ==
    LET chain == Ancestors(p) \cup {p}
    IN IF \E q \in chain : q \in DOMAIN fs.files
       THEN [err |-> TRUE, fs |-> fs]
       ELSE [err |-> FALSE, fs |-> [fs EXCEPT !.dirs = @ \cup chain]]

\* os.OpenFile(p, O_RDWR|O_CREATE, 0644): opens the file, creating it empty when
\* only its directory exists; fails on a directory or a missing directory
OpenFile(fs, p) ==
    LET kind == nodeKind(fs, p)
    IN IF kind = "file" THEN [err |-> FALSE, fs |-> fs]
       ELSE IF kind = "ENOENT" /\ Len(p) > 0 /\ pathDir(p) \in fs.dirs
       THEN [err |-> FALSE, fs |-> [fs EXCEPT !.files = (p :> "") @@ @]]
       ELSE [err |-> TRUE, fs |-> fs]

\* os.Truncate(p, 0) of an existing regular file
Truncate(fs, p) == [fs EXCEPT !.files[p] = ""]

\* the zero byte a file reads as where nothing was written below its size
Nul == "0"

RECURSIVE nuls(_)
nuls(n) ==
    IF n <= 0 THEN ""
    ELSE IF n % 2 = 0 THEN nuls(n \div 2) \o nuls(n \div 2)
    ELSE Nul \o nuls(n - 1)

\* WriteAt as of a file opened with O_APPEND: every write goes to the end of
\* the file.  IdenticalUploads fails of it.
WriteAtAppend(content, off, chunk) == content \o chunk

\* f.Write at the offset of the open file; an offset beyond the size of the
\* file leaves a hole of zero bytes; writing no bytes changes nothing
WriteAt(content, off, chunk) ==
    IF Len(chunk) = 0 THEN content
    ELSE SubSeq(content, 1, Min(off, Len(content))) \o nuls(off - Len(content)) \o chunk
         \o SubSeq(content, off + Len(chunk) + 1, Len(content))

\* os.ReadDir: the names in a directory, sorted; err when p is no directory
ReadDir(fs, p) ==
    IF p \notin fs.dirs THEN [err |-> TRUE, names |-> <<>>]
    ELSE [err |-> FALSE,
          names |-> sorted({pathBase(c) : c \in {c \in fs.dirs \cup DOMAIN fs.files :
                                                  Len(c) = Len(p) + 1 /\ pathDir(c) = p}})]

(***************************************************************************)
(* http.ResponseWriter.  The first WriteHeader fixes the status, a Write   *)
(* before it implies 200, headers set after it are not sent.  The body is  *)
(* the sequence of the parts written.                                      *)
(***************************************************************************)
Part(kind, code, data, name, tags) ==
    [kind |-> kind, code |-> code, data |-> data, name |-> name, tags |-> tags]

OciPart(code) == Part("oci", code, "", "", <<>>)
TextPart == Part("text", "", "", "", <<>>)
BytesPart(b) == Part("bytes", "", b, "", <<>>)
TagListPart(name, tags) == Part("tags", "", "", name, tags)

NewWriter == [wroteHeader |-> FALSE, status |-> 0, digest |-> "", location |-> "", body |-> <<>>]

SetHeader(w, key, value) ==
    IF w.wroteHeader THEN w
    ELSE IF key = "Docker-Content-Digest" THEN [w EXCEPT !.digest = value]
    ELSE [w EXCEPT !.location = value]

WriteHeader(w, status) ==
    IF w.wroteHeader THEN w ELSE [w EXCEPT !.wroteHeader = TRUE, !.status = status]

Write(w, part) == [WriteHeader(w, 200) EXCEPT !.body = Append(@, part)]

\* http.Error
HttpError(w, part, status) == Write(WriteHeader(w, status), part)

\* bytes.Buffer.WriteTo: no Write at all for an empty buffer
WriteTo(w, content) == IF Len(content) = 0 THEN w ELSE Write(w, BytesPart(content))

writeServerError(w) == HttpError(w, TextPart, 500)

writeOciError(code, w, statusCode) == HttpError(w, OciPart(code), statusCode)

(***************************************************************************)
(* The state a handler invocation works on: the file system, the response  *)
(* writer, ret, TRUE once the handler has executed a return, and ran, the   *)
(* branches of the handler entered so far.                                 *)
(***************************************************************************)
Returned(st) == [st EXCEPT !.ret = TRUE]

Entered(st, branch) == [st EXCEPT !.ran = Append(@, branch)]

WithW(st, w) == [st EXCEPT !.w = w]

BufSize == 1024

\* copyLoop with the test for io.EOF ahead of the write: the chunk read together
\* with EOF is lost.  BlobRoundTrip fails of it.
RECURSIVE copyLoopEofFirst(_, _, _)
copyLoopEofFirst(content, off, body) ==
    LET n == Min(BufSize, Len(body))
    IN IF n = Len(body) THEN content
       ELSE copyLoopEofFirst(WriteAt(content, off, SubSeq(body, 1, n)), off + n,
                             SubSeq(body, n + 1, Len(body)))

\* the copy loop of writeToFile (src/main.go:303-318): chunks of at most BufSize
\* bytes written at the file offset until the body reports EOF
RECURSIVE copyLoop(_, _, _)
copyLoop(content, off, body) ==
    LET n == Min(BufSize, Len(body))
        written == WriteAt(content, off, SubSeq(body, 1, n))
    IN IF n = Len(body) THEN written
       ELSE copyLoop(written, off + n, SubSeq(body, n + 1, Len(body)))

\* writeToFile without the os.Truncate of an existing file: the bytes of a
\* longer old content stay behind the new one.  TagOverwrite fails of it.
writeToFileNoTruncate(destFile, st, r) ==
    LET open == OpenFile(st.fs, destFile)
    IN IF open.err THEN WithW(st, writeServerError(st.w))
       ELSE [st EXCEPT !.fs = [open.fs EXCEPT !.files[destFile] = copyLoop(@, 0, r.body)],
                       !.w = WriteHeader(st.w, 201)]

\* writeToFile (src/main.go:279-320).  Its return on an error leaves writeToFile,
\* not the handler, which goes on with the ifs after the call.
writeToFile(destFile, st, r) ==
    LET exists == nodeKind(st.fs, destFile) # "ENOENT"     \* !os.IsNotExist(statE)
        open == OpenFile(st.fs, destFile)
    IN IF open.err THEN WithW(st, writeServerError(st.w))
       ELSE LET fs1 == IF exists THEN Truncate(open.fs, destFile) ELSE open.fs
                fs2 == [fs1 EXCEPT !.files[destFile] = copyLoop(@, 0, r.body)]
            IN [st EXCEPT !.fs = fs2, !.w = WriteHeader(st.w, 201)]

\* fileExists (src/main.go:420-430): os.Open succeeds on directories too
fileExists(fs, p) ==
    LET kind == nodeKind(fs, p)
    IN [ok |-> kind \in {"file", "dir"}, err |-> kind = "ENOTDIR"]

\* readFile (src/main.go:322-333): reading a directory is an error
readFile(fs, p) ==
    IF nodeKind(fs, p) = "file" THEN [content |-> fs.files[p], err |-> FALSE]
    ELSE [content |-> "", err |-> TRUE]

\* getTags (src/main.go:259-272)
getTags(fs, p) ==
    LET rd == ReadDir(fs, p)
    IN [err |-> rd.err, tags |-> SelectSeq(rd.names, LAMBDA n : n # "_blobs")]

\* setupStorage (src/main.go:335-353): the directory "data" of the working
\* directory, here "/srv"
rootDir == pathJoin(<<"srv">>, <<"data">>)

\* the loop of findManifest (src/main.go:437-458) over the sorted entries of
\* the repository directory dir
RECURSIVE scanManifests(_, _, _, _)
scanManifests(fs, dir, names, digest) ==
    IF Len(names) = 0 THEN [path |-> <<>>, err |-> FALSE]
    ELSE LET de == Head(names)
             manifestPath == pathJoin(dir, <<de, "manifest.json">>)
             rf == readFile(fs, manifestPath)
         IN IF de = "_blobs" \/ pathJoin(dir, <<de>>) \notin fs.dirs
            THEN scanManifests(fs, dir, Tail(names), digest)
            ELSE IF rf.err THEN [path |-> <<>>, err |-> TRUE]
            ELSE IF Compute(rf.content) = digest THEN [path |-> manifestPath, err |-> FALSE]
            ELSE scanManifests(fs, dir, Tail(names), digest)

\* findManifest (src/main.go:432-460); dir is path.Join(rootDir, name)
findManifest(fs, dir, digest) ==
    LET rd == ReadDir(fs, dir)
    IN IF rd.err THEN [path |-> <<>>, err |-> TRUE]
       ELSE scanManifests(fs, dir, rd.names, digest)

(***************************************************************************)
(* The requests of the model.                                              *)
(***************************************************************************)
Bytes == {"x"}

RECURSIVE stringsOfLen(_)
stringsOfLen(n) ==
    IF n = 0 THEN {""} ELSE {b \o s : b \in Bytes, s \in stringsOfLen(n - 1)}

\* n bytes "x"
RECURSIVE xs(_)
xs(n) ==
    IF n = 0 THEN ""
    ELSE IF n % 2 = 0 THEN xs(n \div 2) \o xs(n \div 2)
    ELSE "x" \o xs(n - 1)

\* a body that takes two rounds of the copy loop of writeToFile
LongBody == xs(BufSize) \o "y"

\* the bytes of blobs: every string of at most MaxBody bytes
Bodies == UNION {stringsOfLen(n) : n \in 0..MaxBody}

\* the bytes of manifests: those, and the long body
ManifestBodies == Bodies \cup {LongBody}

GoodNames == {"a", "a/bb/manifest.json"}
BadNames == {"A"}
Names == GoodNames \cup BadNames

\* references in manifest URIs: two tags, and one the code's grammar rejects
Refs == {"bb", "_blobs", "b"}

\* digests in blob and manifest URIs: those of the bodies, and a malformed one
ComputedDigests == {Compute(b) : b \in Bodies}
UriDigests == ComputedDigests \cup {"sha256:zz"}

\* values of the digest query parameter of an upload
QueryDigests == ComputedDigests \cup {"manifest.json", "../bb/manifest.json"}

\* uuid.Generate().String() (src/main.go:117): some identifier
UploadIds == {"1f-0c"}

Request(method, uri, body) == [method |-> method, uri |-> uri, body |-> body]

NoRequest == Request("", "", "")

BlobUri(n, d) == "/v2/" \o n \o "/blobs/" \o d
UploadsUri(n) == "/v2/" \o n \o "/blobs/uploads/"
FinalizeUri(n, id, d) == UploadsUri(n) \o id \o "?digest=" \o d
TagListUri(n) == "/v2/" \o n \o "/tags/list"
ManifestUri(n, ref) == "/v2/" \o n \o "/manifests/" \o ref

HeadBlobRequests == {Request("HEAD", BlobUri(n, d), "") : n \in Names, d \in UriDigests}
GetBlobRequests == {Request("GET", BlobUri(n, d), "") : n \in Names, d \in UriDigests}
PostUploadRequests == {Request("POST", UploadsUri(n), "") : n \in Names}
\* PUTs finalizing an upload: to the URI the code matches, with any digest, and
\* to the URI a POST names in Location, with the digest of the body
PutUploadRequests ==
    {Request("PUT", FinalizeUri(n, "", d), b) : n \in Names, d \in QueryDigests, b \in Bodies}
    \cup {Request("PUT", FinalizeUri(n, id, Compute(b)), b) :
              n \in Names, id \in UploadIds, b \in Bodies}
GetTagListRequests == {Request("GET", TagListUri(n), "") : n \in Names}
PutManifestRequests ==
    {Request("PUT", ManifestUri(n, t), b) : n \in Names, t \in Refs, b \in ManifestBodies}
HeadManifestRequests == {Request("HEAD", ManifestUri(n, t), "") : n \in Names, t \in Refs \cup UriDigests}
GetManifestRequests == {Request("GET", ManifestUri(n, t), "") : n \in Names, t \in Refs \cup UriDigests}

\* other requests: URIs without a name or without a sub-resource, a method no
\* branch tests for, and URIs that pass the tests of two branches
OtherRequests ==
    {Request("GET", "/v2/", ""),
     Request("DELETE", ManifestUri("a", "bb"), ""),
     Request("PUT", ManifestUri("", "bb"), "x"),
     Request("GET", "/v2/a/bb/cc/dd", ""),
     Request("POST", "/v2/blobs/uploads/", ""),
     Request("GET", BlobUri("a", Compute("x")) \o "/tags/list", ""),
     Request("PUT", FinalizeUri("a", "", Compute("x")) \o "/manifests/bb", "x")}

Requests ==
    HeadBlobRequests \cup GetBlobRequests \cup PostUploadRequests \cup PutUploadRequests
    \cup GetTagListRequests \cup PutManifestRequests \cup HeadManifestRequests
    \cup GetManifestRequests \cup OtherRequests

(***************************************************************************)
(* The values of the handler's local variables that depend on the request  *)
(* alone: the parsed name, the tests of the if-chain on the endpoint, the  *)
(* references taken from the URI and the paths joined from them            *)
(* (src/main.go:57-66 and the first lines of each branch).  Locals is      *)
(* their table over the requests of the model.                             *)
(***************************************************************************)
locals(r) ==
    LET pn == parseName(r.uri)
        name == pn.name
        endpoint == TrimPrefix(r.uri, Join(<<"/v2/", name>>, ""))
        lastPart == Last(Split(endpoint, "/"))
        requestRef == Last(Split(endpoint, "/manifests/"))
        digest == FormValue(r.uri, "digest")
    IN [parseErr |-> pn.err,
        name |-> name,
        nameOk |-> matches("nameRegex", name),
        endpoint |-> endpoint,
        isBlob |-> Contains(endpoint, "/blobs/sha256:"),
        isUploads |-> HasSuffix(endpoint, "/blobs/uploads/"),
        isFinalize |-> Contains(endpoint, "/blobs/uploads/?"),
        isTagList |-> HasSuffix(endpoint, "/tags/list"),
        isManifest |-> Contains(endpoint, "/manifests/"),
        lastPart |-> lastPart,
        isRef |-> matches("refRegex", lastPart),
        isDigest |-> matches("digestRegex", lastPart),
        requestRef |-> requestRef,
        requestRefOk |-> matches("refRegex", requestRef),
        digest |-> digest,
        repoDir |-> pathJoin(rootDir, <<name>>),
        blobsDir |-> pathJoin(rootDir, <<name, "_blobs">>),
        blobPath |-> pathJoin(rootDir, <<name, "_blobs", lastPart>>),
        destBlob |-> pathJoin(rootDir, <<name, "_blobs", digest>>),
        tagDir |-> pathJoin(rootDir, <<name, requestRef>>),
        destManifest |-> pathJoin(rootDir, <<name, requestRef, "manifest.json">>),
        refManifest |-> pathJoin(rootDir, <<name, lastPart, "manifest.json">>)]

(***************************************************************************)
(* The requests of the handlers that run concurrently: writes of two       *)
(* different manifests under one tag, uploads of one blob, and reads of    *)
(* both keys.                                                              *)
(***************************************************************************)
ConcBlob == "xx"

ConcPutManifests == {Request("PUT", ManifestUri("a", "bb"), b) : b \in {"xx", "y"}}
ConcPutBlobs == {Request("PUT", FinalizeUri("a", "", Compute(ConcBlob)), ConcBlob)}
ConcGetBlobs == {Request("GET", BlobUri("a", Compute(ConcBlob)), "")}
ConcGetManifests == {Request("GET", ManifestUri("a", "bb"), "")}

ConcPuts == ConcPutManifests \cup ConcPutBlobs
ConcGets == ConcGetBlobs \cup ConcGetManifests
ConcRequests == ConcPuts \cup ConcGets

Locals == [r \in Requests \cup ConcRequests |-> locals(r)]

(***************************************************************************)
(* The branches of the handler (src/main.go:66-254).  Each takes and       *)
(* returns the invocation state; r is the request and l its locals.        *)
(***************************************************************************)
\* HEAD blobs (src/main.go:67-87); requestDigest is l.lastPart
headBlob(st, r, l) ==
    LET fe == fileExists(st.fs, l.blobPath)
    IN IF ~l.isDigest
       THEN Returned(WithW(st, writeOciError("BLOB_UNKNOWN", st.w, 400)))
       ELSE IF fe.err THEN Returned(WithW(st, writeServerError(st.w)))
       ELSE IF fe.ok
       THEN WithW(st, WriteHeader(SetHeader(st.w, "Docker-Content-Digest", l.lastPart), 200))
       ELSE WithW(st, WriteHeader(st.w, 404))

\* GET blobs (src/main.go:88-115); requestDigest is l.lastPart
getBlob(st, r, l) ==
    LET fe == fileExists(st.fs, l.blobPath)
        rf == readFile(st.fs, l.blobPath)
        w1 == SetHeader(st.w, "Docker-Content-Digest", l.lastPart)
    IN IF fe.err THEN Returned(WithW(st, writeServerError(st.w)))
       ELSE IF fe.ok
       THEN IF rf.err THEN Returned(WithW(st, writeServerError(w1)))
            ELSE WithW(st, WriteTo(w1, rf.content))
       ELSE WithW(st, WriteHeader(st.w, 404))

\* POST blobs/uploads/ (src/main.go:116-120); id is the uuid generated
postUpload(st, r, id) ==
    WithW(st, WriteHeader(SetHeader(st.w, "Location", r.uri \o id), 202))

\* PUT blobs/uploads/? (src/main.go:121-131)
putBlob(st, r, l) ==
    LET mk == MkdirAll(st.fs, l.blobsDir)
    IN IF mk.err THEN Returned(WithW(st, writeServerError(st.w)))
       ELSE writeToFile(l.destBlob, [st EXCEPT !.fs = mk.fs], r)

\* GET tags/list (src/main.go:132-156)
getTagList(st, r, l) ==
    LET gt == getTags(st.fs, l.repoDir)
    IN IF ReadDir(st.fs, l.repoDir).err
       THEN Returned(WithW(st, writeOciError("NAME_UNKNOWN", st.w, 404)))
       ELSE IF gt.err THEN Returned(WithW(st, writeServerError(st.w)))
       ELSE WithW(st, Write(st.w, TagListPart(l.name, gt.tags)))

\* PUT manifests (src/main.go:157-171)
putManifest(st, r, l) ==
    LET mk == MkdirAll(st.fs, l.tagDir)
    IN IF ~l.requestRefOk
       THEN Returned(WithW(st, writeOciError("MANIFEST_INVALID", st.w, 400)))
       ELSE IF mk.err THEN Returned(WithW(st, writeServerError(st.w)))
       ELSE writeToFile(l.destManifest, [st EXCEPT !.fs = mk.fs], r)

\* the resolution shared by HEAD and GET manifests (src/main.go:173-195 and
\* 211-233): st.ret is set where the handler returns, path is manifestPath
resolveManifest(st, l) ==
    LET found == findManifest(st.fs, l.repoDir, l.lastPart)
    IN IF ~(l.isRef \/ l.isDigest)
       THEN [st |-> Returned(WithW(st, writeOciError("MANIFEST_INVALID", st.w, 404))),
             path |-> <<>>]
       ELSE IF l.isRef THEN [st |-> st, path |-> l.refManifest]
       ELSE IF found.err THEN [st |-> Returned(st), path |-> <<>>]
       ELSE IF found.path = <<>>
       THEN [st |-> Returned(WithW(st, writeOciError("MANIFEST_UNKNOWN", st.w, 404))),
             path |-> <<>>]
       ELSE [st |-> st, path |-> found.path]

\* HEAD manifests (src/main.go:172-209)
headManifest(st0, r, l) ==
    LET res == resolveManifest(st0, l)
        st == res.st
        fe == fileExists(st.fs, res.path)
    IN IF st.ret THEN st
       ELSE IF fe.err THEN Returned(WithW(st, writeServerError(st.w)))
       ELSE WithW(st, WriteHeader(st.w, IF fe.ok THEN 200 ELSE 404))

\* GET manifests (src/main.go:210-254)
getManifest(st0, r, l) ==
    LET res == resolveManifest(st0, l)
        st == res.st
        fe == fileExists(st.fs, res.path)
        rf == readFile(st.fs, res.path)
    IN IF st.ret THEN st
       ELSE IF fe.err THEN Returned(WithW(st, writeServerError(st.w)))
       ELSE IF fe.ok
       THEN IF rf.err THEN Returned(WithW(st, writeServerError(st.w)))
            ELSE WithW(st, WriteTo(st.w, rf.content))
       ELSE Returned(WithW(st, writeOciError("MANIFEST_UNKNOWN", st.w, 404)))

\* The ifs of the chain (src/main.go:67, 88, 116, 121, 132, 157, 172, 210).  Each
\* is skipped once the handler has returned, and tested otherwise whatever the
\* ifs before it did.
ifHeadBlob(st, r, l) ==
    IF ~st.ret /\ r.method = "HEAD" /\ l.isBlob THEN headBlob(Entered(st, "headBlob"), r, l)
    ELSE st

ifGetBlob(st, r, l) ==
    IF ~st.ret /\ r.method = "GET" /\ l.isBlob THEN getBlob(Entered(st, "getBlob"), r, l)
    ELSE st

ifPostUpload(st, r, l, id) ==
    IF ~st.ret /\ r.method = "POST" /\ l.isUploads THEN postUpload(Entered(st, "postUpload"), r, id)
    ELSE st

ifPutBlob(st, r, l) ==
    IF ~st.ret /\ r.method = "PUT" /\ l.isFinalize THEN putBlob(Entered(st, "putBlob"), r, l)
    ELSE st

ifGetTagList(st, r, l) ==
    IF ~st.ret /\ r.method = "GET" /\ l.isTagList THEN getTagList(Entered(st, "getTagList"), r, l)
    ELSE st

ifPutManifest(st, r, l) ==
    IF ~st.ret /\ r.method = "PUT" /\ l.isManifest THEN putManifest(Entered(st, "putManifest"), r, l)
    ELSE st

ifHeadManifest(st, r, l) ==
    IF ~st.ret /\ r.method = "HEAD" /\ l.isManifest THEN headManifest(Entered(st, "headManifest"), r, l)
    ELSE st

ifGetManifest(st, r, l) ==
    IF ~st.ret /\ r.method = "GET" /\ l.isManifest THEN getManifest(Entered(st, "getManifest"), r, l)
    ELSE st

\* the chain of independent ifs (src/main.go:66-254), in source order
dispatch(st0, r, l, id) ==
    ifGetManifest(
      ifHeadManifest(
        ifPutManifest(
          ifGetTagList(
            ifPutBlob(
              ifPostUpload(
                ifGetBlob(
                  ifHeadBlob(st0, r, l),
                  r, l),
                r, l, id),
              r, l),
            r, l),
          r, l),
        r, l),
      r, l)

\* the handler without the test of the name against nameRegex.
\* InvalidNameShortCircuit fails of it.
serveAnyName(st0, r, l, id) ==
    IF l.parseErr THEN Returned(WithW(st0, writeServerError(st0.w)))
    ELSE dispatch(st0, r, l, id)

\* the handler from its first line (src/main.go:57-255); st0 is the state at entry
serve(st0, r, l, id) ==
    IF l.parseErr THEN Returned(WithW(st0, writeServerError(st0.w)))
    ELSE IF ~l.nameOk
    THEN Returned(WithW(st0, writeOciError("NAME_INVALID", st0.w, 400)))
    ELSE dispatch(st0, r, l, id)

\* the handler (src/main.go:53-255) on file system fs; id is the uuid a POST draws
handler(fs, r, id) ==
    serve([fs |-> fs, w |-> NewWriter, ret |-> FALSE, ran |-> <<>>], r, Locals[r], id)

\* what the server sends once the handler is done: 200 if no status was written
Response(w) ==
    [status |-> IF w.wroteHeader THEN w.status ELSE 200,
     digest |-> w.digest, location |-> w.location, body |-> w.body]

\* the outcome of serving r on fs: the file system left and the response sent
Outcome(st) == [fs |-> st.fs, resp |-> Response(st.w)]

Serve(fs, r, id) == Outcome(handler(fs, r, id))

(***************************************************************************)
(* A handler that runs concurrently with another (net/http serves every    *)
(* connection in a goroutine of its own): its position pc in the code, its *)
(* request r, the locals of writeToFile (existed: the result of os.Stat,   *)
(* off: the offset of the open file, rest: the body not yet read), the     *)
(* response writer w, and what befell it: readErrs, the reads of the body  *)
(* that failed with an error other than io.EOF, sticky, the body repeats   *)
(* that error, wfailed, a file write failed, raced, it truncated the file  *)
(* under a writer in mid-copy.                                             *)
(***************************************************************************)
Procs == {1, 2}

Idle ==
    [pc |-> "idle", r |-> NoRequest, existed |-> FALSE, off |-> 0, rest |-> "",
     w |-> NewWriter, readErrs |-> 0, sticky |-> FALSE, wfailed |-> FALSE,
     raced |-> FALSE]

NoHist == [puts |-> {}, faulty |-> {}, last |-> [k \in {} |-> ""]]

(***************************************************************************)
(* The server: requests are served one at a time, each by the whole        *)
(* handler.                                                                *)
(***************************************************************************)
FS == [files |-> files, dirs |-> dirs]

NoFiles == [p \in {} |-> ""]

Init ==
    /\ files = NoFiles
    /\ dirs = Ancestors(rootDir) \cup {rootDir}
    /\ req = NoRequest
    /\ resp = Response(NewWriter)
    /\ pre = [files |-> NoFiles, dirs |-> {}, location |-> ""]
    /\ tagged = [k \in {} |-> ""]
    /\ uploaded = {}
    /\ nreq = 0
    /\ procs = [p \in Procs |-> Idle]
    /\ hist = NoHist

\* Request r is served and answered with `out`: the whole handler, atomically.
\* pre, tagged and uploaded are history variables: the state the request found,
\* the manifests PUT under a tag and the blobs PUT under a digest with 201.
Do(r, out) ==
    /\ files' = out.fs.files
    /\ dirs' = out.fs.dirs
    /\ req' = r
    /\ resp' = out.resp
    /\ pre' = [files |-> files, dirs |-> dirs, location |-> resp.location]
    /\ tagged' = IF r \in PutManifestRequests /\ out.resp.status = 201
                  THEN (<<Locals[r].name, Locals[r].requestRef>> :> r.body) @@ tagged
                  ELSE tagged
    /\ uploaded' = IF r \in PutUploadRequests /\ out.resp.status = 201
                    THEN uploaded \cup {<<Locals[r].name, Locals[r].digest>>}
                    ELSE uploaded
    /\ nreq' = nreq + 1
    /\ UNCHANGED <<procs, hist>>

HeadBlob ==
    \E r \in HeadBlobRequests : nreq < MaxReqs /\ Do(r, Serve(FS, r, ""))

GetBlob ==
    \E r \in GetBlobRequests : nreq < MaxReqs /\ Do(r, Serve(FS, r, ""))

PostUpload ==
    \E r \in PostUploadRequests, id \in UploadIds :
        nreq < MaxReqs /\ Do(r, Serve(FS, r, id))

PutUpload ==
    \E r \in PutUploadRequests : nreq < MaxReqs /\ Do(r, Serve(FS, r, ""))

GetTagList ==
    \E r \in GetTagListRequests : nreq < MaxReqs /\ Do(r, Serve(FS, r, ""))

PutManifest ==
    \E r \in PutManifestRequests : nreq < MaxReqs /\ Do(r, Serve(FS, r, ""))

HeadManifest ==
    \E r \in HeadManifestRequests : nreq < MaxReqs /\ Do(r, Serve(FS, r, ""))

GetManifest ==
    \E r \in GetManifestRequests : nreq < MaxReqs /\ Do(r, Serve(FS, r, ""))

\* the requests outside the eight kinds above
Other ==
    \E r \in OtherRequests : nreq < MaxReqs /\ Do(r, Serve(FS, r, ""))

Next ==
    \/ HeadBlob
    \/ GetBlob
    \/ PostUpload
    \/ PutUpload
    \/ GetTagList
    \/ PutManifest
    \/ HeadManifest
    \/ GetManifest
    \/ Other

Spec == Init /\ [][Next]_vars

(***************************************************************************)
(* The server with two handlers running concurrently, each a step at a     *)
(* time: one step per file system call, and one per round of the copy loop *)
(* of writeToFile.  The handlers are those of the requests ConcRequests,   *)
(* whose URIs take exactly one branch each.                                *)
(***************************************************************************)
\* the file a PUT writes, and the directory it makes for it
destOf(r) == IF r \in ConcPutBlobs THEN Locals[r].destBlob ELSE Locals[r].destManifest

dirOf(r) == IF r \in ConcPutBlobs THEN Locals[r].blobsDir ELSE Locals[r].tagDir

\* the file a GET reads
pathOf(r) == IF r \in ConcGetBlobs THEN Locals[r].blobPath ELSE Locals[r].refManifest

\* the handler in slot p is inside writeToFile on file dest
Writing(p, dest) ==
    /\ procs[p].pc \in {"stat", "open", "truncate", "copy", "respond"}
    /\ destOf(procs[p].r) = dest

Frame == UNCHANGED <<req, resp, pre, tagged, uploaded>>

\* a request arrives and its handler starts (src/main.go:53-66)
Start(p) ==
    \E r \in ConcRequests :
        /\ nreq < MaxReqs
        /\ procs[p].pc = "idle"
        /\ procs' = [procs EXCEPT ![p] =
                        [Idle EXCEPT !.pc = IF r \in ConcPuts THEN "mkdir" ELSE "exists",
                                     !.r = r, !.rest = r.body]]
        /\ hist' = IF r \in ConcPuts
                   THEN [hist EXCEPT !.puts = @ \cup {<<destOf(r), r.body>>}]
                   ELSE hist
        /\ nreq' = nreq + 1
        /\ UNCHANGED <<files, dirs>>
        /\ Frame

\* os.MkdirAll of a PUT (src/main.go:122-126, 164-168)
Mkdir(p) ==
    /\ procs[p].pc = "mkdir"
    /\ \E mk \in {MkdirAll(FS, dirOf(procs[p].r))} :
          /\ files' = mk.fs.files
          /\ dirs' = mk.fs.dirs
          /\ procs' = [procs EXCEPT ![p] =
                          IF mk.err
                          THEN [@ EXCEPT !.pc = "done", !.w = writeServerError(@)]
                          ELSE [@ EXCEPT !.pc = "stat"]]
    /\ UNCHANGED <<nreq, hist>>
    /\ Frame

\* os.Stat in writeToFile (src/main.go:281)
Stat(p) ==
    /\ procs[p].pc = "stat"
    /\ procs' = [procs EXCEPT ![p] =
                    [@ EXCEPT !.pc = "open",
                              !.existed = nodeKind(FS, destOf(procs[p].r)) # "ENOENT"]]
    /\ UNCHANGED <<files, dirs, nreq, hist>>
    /\ Frame

\* os.OpenFile in writeToFile (src/main.go:282-287, 289-293)
Open(p) ==
    /\ procs[p].pc = "open"
    /\ \E open \in {OpenFile(FS, destOf(procs[p].r))} :
          /\ files' = open.fs.files
          /\ dirs' = open.fs.dirs
          /\ procs' = [procs EXCEPT ![p] =
                          IF open.err
                          THEN [@ EXCEPT !.pc = "done", !.w = writeServerError(@)]
                          ELSE [@ EXCEPT !.pc = IF procs[p].existed THEN "truncate" ELSE "copy"]]
    /\ UNCHANGED <<nreq, hist>>
    /\ Frame

\* os.Truncate in writeToFile (src/main.go:294-298), of the file by its path
TruncateStep(p) ==
    /\ procs[p].pc = "truncate"
    /\ files' = Truncate(FS, destOf(procs[p].r)).files
    /\ procs' = [procs EXCEPT ![p] =
                    [@ EXCEPT !.pc = "copy",
                              !.raced = \E q \in Procs \ {p} :
                                            /\ Writing(q, destOf(procs[p].r))
                                            /\ procs[q].pc = "copy"
                                            /\ procs[q].off > 0]]
    /\ UNCHANGED <<dirs, nreq, hist>>
    /\ Frame

\* What r.Body.Read(buf) can return to the handler pr (src/main.go:304): some
\* of the bytes left, at most len(buf), with a nil error or, with the last of
\* them, io.EOF; io.EOF once none is left; or, the client gone before the end,
\* an error other than io.EOF.  A body of known length fails with
\* io.ErrUnexpectedEOF and returns io.EOF from then on; a chunked body or a
\* broken connection returns its error again at every Read.
ReadOutcomes(pr) ==
    IF pr.readErrs > 0
    THEN IF pr.sticky
         THEN {[n |-> 0, err |-> "error"] : k \in {k \in {1} : pr.readErrs < MaxReadErrs}}
         ELSE {[n |-> 0, err |-> "EOF"]}
    ELSE IF pr.rest = "" THEN {[n |-> 0, err |-> "EOF"]}
    ELSE {[n |-> k, err |-> "nil"] : k \in 1..Min(BufSize, Len(pr.rest))}
         \cup {[n |-> Len(pr.rest), err |-> "EOF"] : k \in {k \in {1} : Len(pr.rest) <= BufSize}}
         \cup {[n |-> 0, err |-> e] : e \in {"ErrUnexpectedEOF", "error"}}

\* one round of the copy loop (src/main.go:304-317): a read of the body, the
\* write of what was read at the offset of the file, which may fail and is then
\* only logged, and the test for io.EOF
Copy(p) ==
    /\ procs[p].pc = "copy"
    /\ \E rd \in ReadOutcomes(procs[p]), wrote \in BOOLEAN :
          /\ rd.n = 0 => wrote
          /\ files' = IF wrote
                      THEN [files EXCEPT ![destOf(procs[p].r)] =
                               WriteAt(@, procs[p].off, SubSeq(procs[p].rest, 1, rd.n))]
                      ELSE files
          /\ procs' = [procs EXCEPT ![p] =
                          [@ EXCEPT !.pc = IF rd.err = "EOF" THEN "respond" ELSE "copy",
                                    !.off = IF wrote THEN @ + rd.n ELSE @,
                                    !.rest = SubSeq(@, rd.n + 1, Len(@)),
                                    !.readErrs = IF rd.err \in {"ErrUnexpectedEOF", "error"}
                                                 THEN @ + 1 ELSE @,
                                    !.sticky = rd.err = "error",
                                    !.wfailed = @ \/ ~wrote]]
          /\ hist' = IF rd.err \in {"ErrUnexpectedEOF", "error"} \/ ~wrote
                     THEN [hist EXCEPT !.faulty = @ \cup {destOf(procs[p].r)}]
                     ELSE hist
    /\ UNCHANGED <<dirs, nreq>>
    /\ Frame

\* w.WriteHeader(201) at the end of writeToFile (src/main.go:319)
Respond(p) ==
    /\ procs[p].pc = "respond"
    /\ procs' = [procs EXCEPT ![p] = [@ EXCEPT !.pc = "done", !.w = WriteHeader(@, 201)]]
    /\ hist' = [hist EXCEPT !.last = (destOf(procs[p].r) :> procs[p].r.body) @@ @]
    /\ UNCHANGED <<files, dirs, nreq>>
    /\ Frame

\* fileExists of a GET (src/main.go:92-100, 113 and 234-238, 251)
Exists(p) ==
    /\ procs[p].pc = "exists"
    /\ \E fe \in {fileExists(FS, pathOf(procs[p].r))} :
          procs' = [procs EXCEPT ![p] =
                       IF fe.err THEN [@ EXCEPT !.pc = "done", !.w = writeServerError(@)]
                       ELSE IF fe.ok
                       THEN [@ EXCEPT !.pc = "readfile",
                                      !.w = IF procs[p].r \in ConcGetBlobs
                                            THEN SetHeader(@, "Docker-Content-Digest",
                                                           Locals[procs[p].r].lastPart)
                                            ELSE @]
                       ELSE [@ EXCEPT !.pc = "done",
                                      !.w = IF procs[p].r \in ConcGetBlobs
                                            THEN WriteHeader(@, 404)
                                            ELSE writeOciError("MANIFEST_UNKNOWN", @, 404)]]
    /\ UNCHANGED <<files, dirs, nreq, hist>>
    /\ Frame

\* readFile and content.WriteTo(w) of a GET (src/main.go:101-110 and 240-249);
\* the file is read in one piece
ReadFile(p) ==
    /\ procs[p].pc = "readfile"
    /\ \E rf \in {readFile(FS, pathOf(procs[p].r))} :
          procs' = [procs EXCEPT ![p] =
                       [@ EXCEPT !.pc = "done",
                                 !.w = IF rf.err THEN writeServerError(@)
                                       ELSE WriteTo(@, rf.content)]]
    /\ UNCHANGED <<files, dirs, nreq, hist>>
    /\ Frame

\* the handler returns; its slot is free for the next request
Return(p) ==
    /\ procs[p].pc = "done"
    /\ procs' = [procs EXCEPT ![p] = Idle]
    /\ UNCHANGED <<files, dirs, nreq, hist>>
    /\ Frame

ConcNext ==
    \E p \in Procs :
        \/ Start(p)
        \/ Mkdir(p)
        \/ Stat(p)
        \/ Open(p)
        \/ TruncateStep(p)
        \/ Copy(p)
        \/ Respond(p)
        \/ Exists(p)
        \/ ReadFile(p)
        \/ Return(p)

ConcSpec == Init /\ [][ConcNext]_vars

(***************************************************************************)
(* Properties.  Answer(r) is the response the server would give to request *)
(* r in the current state; last is the locals of the request just served.  *)
(***************************************************************************)
Answer(r) == Serve(FS, r, "").resp

served == nreq > 0

last == Locals[req]

\* the body of a response that carries exactly the bytes b
BytesBody(b) == IF b = "" THEN <<>> ELSE <<BytesPart(b)>>

GetBlobOf(n, d) == Request("GET", BlobUri(n, d), "")

HeadBlobOf(n, d) == Request("HEAD", BlobUri(n, d), "")

\* the tags of repository n under which a manifest has been PUT
TagsOf(n) == {k[2] : k \in {k \in DOMAIN tagged : k[1] = n}}

\* something has been written under repository n itself
WrittenUnder(n) == TagsOf(n) # {} \/ \E u \in uploaded : u[1] = n

\* C1: blob integrity.  In every reachable state, for every repository and
\* digest d, if HEAD or GET /v2/r/blobs/d reports the blob present (200), the
\* bytes stored under (r, d) hash to d.  The code stores the body of an upload
\* under whatever digest the request names, so this is violated.
BlobIntegrity ==
    \A r \in HeadBlobRequests \cup GetBlobRequests :
        (Locals[r].nameOk /\ Answer(r).status = 200)
            => /\ Locals[r].blobPath \in DOMAIN files
               /\ Compute(files[Locals[r].blobPath]) = Locals[r].lastPart

\* C2: a PUT finalizing an upload with digest parameter d and body b where
\* Compute(b) # d is answered 400 DIGEST_INVALID, never 201.  The code never
\* compares the two, so this is violated.
DigestMismatchRejected ==
    (/\ served
     /\ req \in PutUploadRequests
     /\ last.nameOk
     /\ Compute(req.body) # last.digest)
        => /\ resp.status = 400
           /\ resp.body = <<OciPart("DIGEST_INVALID")>>

UploadProtocol ==
    /\ (served /\ req \in PostUploadRequests /\ last.nameOk)
          => /\ resp.status = 202
             /\ \E id \in UploadIds : resp.location = UploadsUri(last.name) \o id
    /\ (/\ served
        /\ req.method = "PUT"
        /\ pre.location # ""
        /\ req.uri = pre.location \o "?digest=" \o Compute(req.body))
          => /\ resp.status = 201
             /\ resp.digest = Compute(req.body)
             /\ Answer(HeadBlobOf(last.name, Compute(req.body))).status = 200

DigestResolution ==
    \A r \in HeadManifestRequests \cup GetManifestRequests :
        (Locals[r].nameOk /\ Locals[r].isDigest)
            => /\ Answer(r).status = 200
                    => \E t \in TagsOf(Locals[r].name) :
                          /\ Compute(tagged[<<Locals[r].name, t>>]) = Locals[r].lastPart
                          /\ r.method = "GET"
                                => Answer(r).body = BytesBody(tagged[<<Locals[r].name, t>>])
               /\ (\A t \in TagsOf(Locals[r].name) :
                       Compute(tagged[<<Locals[r].name, t>>]) # Locals[r].lastPart)
                    => /\ Answer(r).status = 404
                       /\ r.method = "GET"
                             => Answer(r).body = <<OciPart("MANIFEST_UNKNOWN")>>

\* C7: tag list exactness.  After any uploads and manifest PUTs, a GET of
\* /v2/r/tags/list answering 200 returns name r and exactly the tags under
\* which a manifest has been PUT in r.  The code lists the entries of the
\* repository's directory but "_blobs", so this is violated.
TagListExact ==
    \A r \in GetTagListRequests :
        (Locals[r].nameOk /\ Answer(r).status = 200)
            => /\ Len(Answer(r).body) = 1
               /\ Answer(r).body[1].kind = "tags"
               /\ Answer(r).body[1].name = Locals[r].name
               /\ {Answer(r).body[1].tags[i] : i \in DOMAIN Answer(r).body[1].tags}
                     = TagsOf(Locals[r].name)

\* C8: unknown repository.  GET /v2/r/tags/list answers 404 NAME_UNKNOWN as
\* long as no blob and no manifest has been written under r itself, whatever
\* has been written under other repositories, and 200 once something has.
\* The code answers 200 as soon as the directory of r exists, which a write to
\* a repository r/x brings about, so this is violated.
UnknownRepository ==
    \A r \in GetTagListRequests :
        Locals[r].nameOk
            => IF WrittenUnder(Locals[r].name)
               THEN Answer(r).status = 200
               ELSE /\ Answer(r).status = 404
                    /\ Answer(r).body = <<OciPart("NAME_UNKNOWN")>>

\* C9: nonexistent tag.  In every reachable state, for a valid repository r
\* and valid tag t under which no manifest has been PUT in r, HEAD and GET
\* /v2/r/manifests/t answer 404 (MANIFEST_UNKNOWN on GET), never 200 or 500.
\* The code answers by what lies at r/t/manifest.json, which other writes can
\* create, so this is violated.
NonexistentTag ==
    \A r \in HeadManifestRequests \cup GetManifestRequests :
        (/\ Locals[r].nameOk
         /\ Locals[r].isRef
         /\ Locals[r].lastPart \notin TagsOf(Locals[r].name))
            => /\ Answer(r).status = 404
               /\ r.method = "GET" => Answer(r).body = <<OciPart("MANIFEST_UNKNOWN")>>

\* C10: invalid-name short circuit.  A request whose extracted name does not
\* match the name grammar, whatever its method and sub-resource, is answered
\* 400 NAME_INVALID and leaves every file and directory of the store as it was.
InvalidNameShortCircuit ==
    (served /\ ~last.parseErr /\ ~last.nameOk)
        => /\ resp.status = 400
           /\ resp.body = <<OciPart("NAME_INVALID")>>
           /\ files = pre.files
           /\ dirs = pre.dirs

\* a PUT with a body under an invalid name, served on a store that holds files
InvalidNameWitness ==
    /\ served
    /\ ~last.parseErr
    /\ ~last.nameOk
    /\ req.method = "PUT"
    /\ req.body # ""
    /\ pre.files # NoFiles
    /\ resp.status = 400
    /\ files = pre.files

\* the store as the request served last found it, and the answer to r on a store
PreFS == [files |-> pre.files, dirs |-> pre.dirs]

AnswerOn(fs, r) == Serve(fs, r, "").resp

\* the tags GET /v2/n/tags/list reports on a store (none when it reports no list)
ListedTags(fs, n) ==
    IF AnswerOn(fs, Request("GET", TagListUri(n), "")).status = 200
    THEN UNION {{p.tags[i] : i \in DOMAIN p.tags} :
                   p \in {AnswerOn(fs, Request("GET", TagListUri(n), "")).body[j] :
                             j \in DOMAIN AnswerOn(fs, Request("GET", TagListUri(n), "")).body}}
    ELSE {}

\* the name the segments of a URI give by the rule of the interface: those
\* before the first reserved keyword, an error if there are none or no keyword
NameBySegments(segs) ==
    IF Len(nameParts(segs)) = 0 \/ Len(nameParts(segs)) = Len(segs)
    THEN [name |-> "", err |-> TRUE]
    ELSE [name |-> Join(nameParts(segs), "/"), err |-> FALSE]

\* C11: API probe.  GET /v2/ is answered 200 in every store state.  The code
\* parses a name out of every URI under /v2/ first and answers 500 when there
\* is none, so this is violated.
ApiProbe == Answer(Request("GET", "/v2/", "")).status = 200

\* C17: single dispatch.  For every request at most one branch of the handler
\* runs.  The code tests the branches one after the other, each by a substring
\* or suffix of the URI, and a URI can pass two tests, so this is violated.
SingleDispatch ==
    served => Len(handler(PreFS, req, "").ran) <= 1

\* C18: name extraction.  For every request URI the extracted name is the path
\* segments between /v2/ and the first reserved keyword; with no segment ahead
\* of the keyword, or no keyword, extraction fails and yields no name.  The
\* code takes the first segment of a URI of three segments whatever it is, and
\* the whole path when no keyword occurs, so this is violated.
NameExtraction ==
    served => parseName(req.uri) = NameBySegments(Split(TrimPrefix(req.uri, "/v2/"), "/"))

\* C20: isolation.  A blob upload to (r, d), whatever the digest value d,
\* changes no manifest reachable by tag, no tag list and no blob other than
\* (r, d); a manifest PUT to (r, t) changes no blob, and no manifest or tag
\* list of another repository.  The code joins the digest value and the name
\* into paths of one directory tree shared by blobs, tags and repositories,
\* so this is violated.
Isolation ==
    /\ (served /\ req \in PutUploadRequests /\ last.nameOk)
          => /\ \A q \in GetManifestRequests :
                    Locals[q].isRef => AnswerOn(PreFS, q) = AnswerOn(FS, q)
             /\ \A n \in GoodNames : ListedTags(PreFS, n) = ListedTags(FS, n)
             /\ \A q \in GetBlobRequests :
                    <<Locals[q].name, Locals[q].lastPart>> # <<last.name, last.digest>>
                        => AnswerOn(PreFS, q) = AnswerOn(FS, q)
    /\ (served /\ req \in PutManifestRequests /\ last.nameOk)
          => /\ \A q \in GetBlobRequests : AnswerOn(PreFS, q) = AnswerOn(FS, q)
             /\ \A q \in GetManifestRequests :
                    (Locals[q].isRef /\ Locals[q].name # last.name)
                        => AnswerOn(PreFS, q) = AnswerOn(FS, q)
             /\ \A n \in GoodNames \ {last.name} : ListedTags(PreFS, n) = ListedTags(FS, n)

(***************************************************************************)
(* Properties of the handlers that run concurrently (ConcSpec).            *)
(***************************************************************************)
\* the files the concurrent PUTs write
ConcManifestPath == destOf(CHOOSE r \in ConcPutManifests : TRUE)

ConcBlobPath == destOf(CHOOSE r \in ConcPutBlobs : TRUE)

\* a PUT of file dest has started and not yet responded
Active(dest) ==
    \E p \in Procs :
        /\ procs[p].r \in ConcPuts
        /\ procs[p].pc \notin {"idle", "done"}
        /\ destOf(procs[p].r) = dest

\* every PUT of file dest so far has responded, one at least, and none met a
\* failed read or write
Settled(dest) == ~Active(dest) /\ dest \notin hist.faulty /\ dest \in DOMAIN hist.last

\* the handler in slot p has responded to a request of the set rs
Done(p, rs) == procs[p].pc = "done" /\ procs[p].r \in rs

\* C12: last writer wins.  Once the PUTs of two different manifests under one
\* tag have all completed, none of them with a failed read or write, the
\* manifest stored is the whole body of one of them, no mixture of the two.
\* The code writes both bodies into one file, each at its own offset, and only
\* a PUT that found the file existing truncates it, so this is violated.
LastWriterWins ==
    Settled(ConcManifestPath)
        => \E put \in hist.puts :
              put[1] = ConcManifestPath /\ files[ConcManifestPath] = put[2]

\* C13: atomic publish.  A GET that answers 200 carries the whole body of a
\* PUT to its key, whatever PUTs run beside it.  The code writes into the file
\* the GET reads, from its creation on, so this is violated.
AtomicPublish ==
    \A p \in Procs :
        (Done(p, ConcGets) /\ pathOf(procs[p].r) \notin hist.faulty
         /\ Response(procs[p].w).status = 200)
            => \E put \in hist.puts :
                  /\ put[1] = pathOf(procs[p].r)
                  /\ Response(procs[p].w).body = <<BytesPart(put[2])>>

InterruptedUpload ==
    \A p \in Procs :
        (Done(p, ConcPutBlobs) /\ procs[p].readErrs > 0)
            => /\ Response(procs[p].w).status # 201
               /\ (~Active(ConcBlobPath) /\ ConcBlobPath \in DOMAIN files
                   /\ files[ConcBlobPath] # ConcBlob)
                      => Answer(HeadBlobOf("a", Compute(ConcBlob))).status # 200

\* C16: storage failure.  A PUT of a blob or a manifest one of whose file
\* writes failed is answered with a 5xx status.  The code logs the failed
\* write and goes on to answer 201, so this is violated.
StorageFailureReported ==
    \A p \in Procs :
        (Done(p, ConcPuts) /\ procs[p].wfailed) => Response(procs[p].w).status >= 500

\* C19: termination.  The copy loop of a PUT ends when reading the body
\* fails: it is not at its head again after a second read has returned the
\* error.  The code leaves the loop at io.EOF only; a round that ends with
\* another error changes nothing of the handler nor of the file, and the body
\* returns the error at every further read, so this is violated and the
\* handler goes round for ever.
CopyLoopEnds == \A p \in Procs : procs[p].pc = "copy" => procs[p].readErrs <= 1

====
